---- MODULE Spec2Model ----
(***************************************************************************)
(* Mess management backend: the HMAC-signed QR token codec                 *)
(* (core/utils.py, mess/models.py) and the scan decision engine            *)
(* (mess/serializers.py) with the handlers that change the records the     *)
(* decision reads (mess/views.py, mess/admin.py, mess/tasks.py,            *)
(* mess/scanner_views.py).                                                 *)
(*                                                                         *)
(* Strings are sequences of one-character strings, so that split('|'),     *)
(* the f-string join, str(int) and int(str) are computed and not assumed.  *)
(* HMAC-SHA256 is idealised as a collision-free keyed function whose       *)
(* output is a lowercase hex string: the hex encoding of key, NUL, data.   *)
(***************************************************************************)
EXTENDS Integers, Sequences, FiniteSets, TLC

\* ------------------------------------------------------------------ bounds
MaxCodecId == 11
MaxVersion == 3
MaxStudents == 1
MaxPayments == 1
MaxCuts == 1
MaxClosures == 1
MaxDay == 2
MaxScans == 1
MaxDraws == 4
MaxTasks == 1
MaxSecretVersion == 2
MaxSync == 2
MaxDlq == 2

VARIABLES
    tok, src, edit, vsec, out,
    students, payments, cuts, closures, today, scanEvents, resp,
    draws, issued, qr_secret_version, workers, taskQueue,
    clock, staff_token, sheets_queue, dlq_logs

codecVars == <<tok, src, edit, vsec, out>>
dataVars == <<payments, cuts, closures, today>>
rotVars == <<draws, qr_secret_version, workers, taskQueue>>
syncVars == <<sheets_queue, dlq_logs>>
vars == <<tok, src, edit, vsec, out, students, payments, cuts, closures, today,
          scanEvents, resp, draws, issued, qr_secret_version, workers, taskQueue,
          clock, staff_token, sheets_queue, dlq_logs>>

\* --------------------------------------------------------------- strings
Digits == <<"0", "1", "2", "3", "4", "5", "6", "7", "8", "9">>

DigitChars == {Digits[i] : i \in 1..10}

DigitValue(c) == (CHOOSE i \in 1..10 : Digits[i] = c) - 1

RECURSIVE NatToStr(_)
NatToStr(n) ==
    IF n < 10 THEN <<Digits[n + 1]>>
    ELSE NatToStr(n \div 10) \o <<Digits[(n % 10) + 1]>>

\* str(n) as the f-string formats an integer field
IntToStr(n) == IF n < 0 THEN <<"-">> \o NatToStr(0 - n) ELSE NatToStr(n)

RECURSIVE DigitsToNat(_, _)
DigitsToNat(s, acc) ==
    IF s = <<>> THEN acc
    ELSE DigitsToNat(Tail(s), acc * 10 + DigitValue(Head(s)))

IsDigitString(s) == s /= <<>> /\ \A i \in 1..Len(s) : s[i] \in DigitChars

\* int(s): an optional sign and one or more decimal digits parse; anything
\* else raises ValueError (exc).  The whitespace and underscore forms int()
\* also accepts use characters outside the modelled alphabet.
StrToInt(s) ==
    IF IsDigitString(s) THEN [exc |-> FALSE, val |-> DigitsToNat(s, 0)]
    ELSE IF s /= <<>> /\ Head(s) \in {"-", "+"} /\ IsDigitString(Tail(s))
    THEN [exc |-> FALSE,
          val |-> IF Head(s) = "-" THEN 0 - DigitsToNat(Tail(s), 0)
                  ELSE DigitsToNat(Tail(s), 0)]
    ELSE [exc |-> TRUE, val |-> 0]

RECURSIVE SplitAcc(_, _, _)
SplitAcc(s, cur, acc) ==
    IF s = <<>> THEN Append(acc, cur)
    ELSE IF Head(s) = "|" THEN SplitAcc(Tail(s), <<>>, Append(acc, cur))
    ELSE SplitAcc(Tail(s), Append(cur, Head(s)), acc)

\* payload.split('|')
Split(s) == SplitAcc(s, <<>>, <<>>)

RECURSIVE Join(_)
Join(fields) ==
    IF Len(fields) = 0 THEN <<>>
    ELSE IF Len(fields) = 1 THEN fields[1]
    ELSE fields[1] \o <<"|">> \o Join(Tail(fields))

\* ------------------------------------------------------------------ HMAC
AsciiChars == DigitChars \cup {"|", "v", "w", "a", "b", "c", "d", "e", "f",
                               "x", "k", "j", "-", "+"}

NonAscii == "E9"

HexCode(c) ==
    CASE c = "|" -> <<"7", "c">>
      [] c = "v" -> <<"7", "6">>
      [] c = "w" -> <<"7", "7">>
      [] c = "x" -> <<"7", "8">>
      [] c = "k" -> <<"6", "b">>
      [] c = "j" -> <<"6", "a">>
      [] c = "a" -> <<"6", "1">>
      [] c = "b" -> <<"6", "2">>
      [] c = "c" -> <<"6", "3">>
      [] c = "d" -> <<"6", "4">>
      [] c = "e" -> <<"6", "5">>
      [] c = "f" -> <<"6", "6">>
      [] c = "-" -> <<"2", "d">>
      [] c = "+" -> <<"2", "b">>
      [] c \in DigitChars -> <<"3", c>>
      [] OTHER -> <<"c", "3", "a", "9">>

RECURSIVE HexEncode(_)
HexEncode(s) == IF s = <<>> THEN <<>> ELSE HexCode(Head(s)) \o HexEncode(Tail(s))

\* hmac.new(secret.encode(), data.encode(), hashlib.sha256).hexdigest()
HmacHex(secret, data) == HexEncode(secret) \o <<"0", "0">> \o HexEncode(data)

IsAscii(s) == \A i \in 1..Len(s) : s[i] \in AsciiChars

CompareDigestLength(a, b) ==
    IF IsAscii(a) /\ IsAscii(b) THEN [exc |-> FALSE, eq |-> Len(a) = Len(b)]
    ELSE [exc |-> TRUE, eq |-> FALSE]

\* hmac.compare_digest on two str: TypeError unless both are ASCII
CompareDigest(a, b) ==
    IF IsAscii(a) /\ IsAscii(b) THEN [exc |-> FALSE, eq |-> a = b]
    ELSE [exc |-> TRUE, eq |-> FALSE]

\* ----------------------------------------------------------------- codec
NoId == <<>>

GenerateSignsWithoutNonce(id, qr_version, qr_nonce, secret) ==
    LET data == Join(<<<<"v">>, IntToStr(id), IntToStr(qr_version), qr_nonce>>)
        signed == Join(<<<<"v">>, IntToStr(id), IntToStr(qr_version)>>)
    IN  Join(<<data, HmacHex(secret, signed)>>)

\* Student.generate_qr_payload
generate_qr_payload(id, qr_version, qr_nonce, secret) ==
    LET data == Join(<<<<"v">>, IntToStr(id), IntToStr(qr_version), qr_nonce>>)
    IN  Join(<<data, HmacHex(secret, data)>>)

\* the body of validate_qr_payload's try block: exc is a raised exception
ValidateTry(payload, secret) ==
    LET parts == Split(payload)
    IN  IF Len(parts) /= 5 THEN [exc |-> FALSE, ok |-> FALSE, id |-> NoId]
        ELSE LET data == Join(SubSeq(parts, 1, 4))
                 cmp  == CompareDigest(parts[5], HmacHex(secret, data))
                 sid  == StrToInt(parts[2])
             IN  IF cmp.exc THEN [exc |-> TRUE, ok |-> FALSE, id |-> NoId]
                 ELSE IF cmp.eq
                 THEN IF sid.exc THEN [exc |-> TRUE, ok |-> FALSE, id |-> NoId]
                      ELSE [exc |-> FALSE, ok |-> TRUE, id |-> <<sid.val>>]
                 ELSE [exc |-> FALSE, ok |-> FALSE, id |-> NoId]

ValidateNoExcept(payload, secret) ==
    LET r == ValidateTry(payload, secret)
    IN  [raised |-> r.exc, ok |-> r.ok, id |-> r.id]

\* validate_qr_payload: the try block, and except Exception -> (False, None)
validate_qr_payload(payload, secret) ==
    LET r == ValidateTry(payload, secret)
    IN  IF r.exc THEN [raised |-> FALSE, ok |-> FALSE, id |-> NoId]
        ELSE [raised |-> FALSE, ok |-> r.ok, id |-> r.id]

\* settings.QR_SECRET
QR_SECRET == <<"k">>

\* --------------------------------------------------------------- records
\* secrets.token_hex: the k-th draw, distinct draws giving distinct strings
token_hex(k) == <<"a">> \o NatToStr(k)

StudentIds == 1..Len(students)

Days == 1..MaxDay

\* MessCut.from_date / to_date: a cut may start after the last day served
CutDays == 1..(MaxDay + 1)

\* timezone.now(): the readings of the UTC clock within a day, in minutes
\* after midnight: 06:45, 17:29, 17:31, 19:00 and 23:30 UTC, which are 12:15,
\* 22:59, 23:01, 00:30 (next day) and 05:00 (next day) in Asia/Kolkata
Instants == <<405, 1049, 1051, 1140, 1410>>

\* TIME_ZONE 'Asia/Kolkata': UTC+05:30
UtcOffsetMinutes == 330

\* the cutoff '23:00' of MessCutSerializer.validate and MessCutView.create
CutoffMinute == 1380

\* timezone.now().time(): USE_TZ is on, so now() is an aware UTC datetime
UtcMinute == Instants[clock]

\* timezone.now().astimezone(tz).time() and .date()
LocalMinute == (UtcMinute + UtcOffsetMinutes) % 1440

LocalDate == today + ((UtcMinute + UtcOffsetMinutes) \div 1440)

Meals == {"LUNCH", "DINNER"}

NoMeal == "absent"

\* settings.MEAL_TIMINGS for the meals of the model, in minutes of the day
MEAL_TIMINGS ==
    [LUNCH |-> [start |-> 720, end |-> 870],
     DINNER |-> [start |-> 1140, end |-> 1290]]

NoResp == [kind |-> "none", result |-> "", student |-> 0, path |-> "",
           meal |-> NoMeal]

ErrorResp(code) == [kind |-> "error", result |-> code, student |-> 0,
                    path |-> "", meal |-> NoMeal]

\* the text of the ValidationError QRScanSerializer raises for an error code
ErrorMessage(code) ==
    CASE code = "invalid_qr" -> "Invalid QR code"
      [] code = "student_not_found" -> "Student not found"
      [] OTHER -> code

HasPaymentAnyStatus(id, for_date) ==
    \E i \in 1..Len(payments) :
        /\ payments[i].student = id
        /\ payments[i].cycle_start <= for_date
        /\ payments[i].cycle_end >= for_date

\* Student.has_valid_payment
has_valid_payment(id, for_date) ==
    \E i \in 1..Len(payments) :
        /\ payments[i].student = id
        /\ payments[i].status = "VERIFIED"
        /\ payments[i].cycle_start <= for_date
        /\ payments[i].cycle_end >= for_date

HasCutStrictlyInside(id, d) ==
    \E c \in cuts : c.student = id /\ c.from_date < d /\ c.to_date > d

HasCutOn(id, d) ==
    \E c \in cuts : c.student = id /\ c.from_date <= d /\ c.to_date >= d

HasClosureOn(d) == \E c \in closures : c.from_date <= d /\ c.to_date >= d

DetermineReordered(id) ==
    IF ~has_valid_payment(id, today) THEN "BLOCKED_NO_PAYMENT"
    ELSE IF students[id].status /= "APPROVED" THEN "BLOCKED_STATUS"
    ELSE IF HasClosureOn(today) THEN "BLOCKED_CLOSURE"
    ELSE IF HasCutOn(id, today) THEN "BLOCKED_CUT"
    ELSE "ALLOWED"

\* QRScanSerializer._determine_scan_result
determine_scan_result(id) ==
    IF students[id].status /= "APPROVED" THEN "BLOCKED_STATUS"
    ELSE IF ~has_valid_payment(id, today) THEN "BLOCKED_NO_PAYMENT"
    ELSE IF HasCutOn(id, today) THEN "BLOCKED_CUT"
    ELSE IF HasClosureOn(today) THEN "BLOCKED_CLOSURE"
    ELSE "ALLOWED"

\* ------------------------------------------------------------ idle values
NoOut == [done |-> FALSE, raised |-> FALSE, ok |-> FALSE, id |-> NoId]

NoSrc == [id |-> 0, qr_version |-> 0, qr_nonce |-> <<>>, secret |-> <<>>]

NoEdit == [kind |-> "none", field |-> 0]

IdleWorker == [kind |-> "idle", insts |-> <<>>, todo |-> <<>>, failed |-> <<>>,
               action |-> ""]

CodecIdle ==
    /\ tok = <<>>
    /\ src = NoSrc
    /\ edit = NoEdit
    /\ vsec = <<>>
    /\ out = NoOut

\* a StaffToken row as create_token leaves it, not yet past its expires_at,
\* and a scanner web session that logged in with the token
StaffLoggedIn == [active |-> TRUE, expired |-> FALSE, session |-> TRUE]

\* StaffToken.is_valid
StaffToken_is_valid == staff_token.active /\ ~staff_token.expired

\* IsStaff.has_permission: the row is looked up with active=True, then
\* is_valid()
IsStaff_has_permission == staff_token.active /\ StaffToken_is_valid

\* the empty database and n request or task processes
SystemInit(n) ==
    /\ students = <<>>
    /\ payments = <<>>
    /\ cuts = {}
    /\ closures = {}
    /\ today = 1
    /\ scanEvents = <<>>
    /\ resp = NoResp
    /\ draws = 0
    /\ issued = {}
    /\ qr_secret_version = 1
    /\ workers = [i \in 1..n |-> IdleWorker]
    /\ taskQueue = <<>>
    /\ clock = 1
    /\ staff_token = StaffLoggedIn
    /\ sheets_queue = <<>>
    /\ dlq_logs = <<>>

sysVars == <<students, payments, cuts, closures, today, scanEvents, resp,
             draws, issued, qr_secret_version, workers, taskQueue, clock,
             staff_token, sheets_queue, dlq_logs>>

\* ------------------------------------------------- the codec on its inputs
Secrets == {<<"k">>, <<"j">>}

FieldPool == {<<"v">>, <<"w">>, <<"1">>, <<"2">>, <<"x">>, <<>>, <<"-", "1">>,
              token_hex(1), token_hex(2), <<"1", "|", "1">>}

SigChars == {"0", "f", "|", NonAscii}

RawPool == {<<>>, <<"v">>, <<"|", "|", "|", "|">>, <<"|", "|", "|">>,
            <<"v", "|", "x", "|", "1", "|", "a", "|", "f", "f">>,
            <<"v", "|", "1", "|", "1", "|", "a", "|", NonAscii>>,
            <<"v", "|", "1", "|", "1", "|", "a", "|", "f", "|", "f">>}

InitCodec ==
    /\ src \in [id : 1..MaxCodecId, qr_version : 1..MaxVersion,
                 qr_nonce : {token_hex(1), token_hex(2)}, secret : Secrets]
    /\ tok = <<>>
    /\ edit = [kind |-> "input", field |-> 0]
    /\ vsec = <<>>
    /\ out = NoOut
    /\ SystemInit(0)

\* a token as the server issues it
CodecGenerate ==
    /\ edit.kind = "input"
    /\ tok' = generate_qr_payload(src.id, src.qr_version, src.qr_nonce, src.secret)
    /\ edit' = [kind |-> "generated", field |-> 0]
    /\ UNCHANGED <<src, vsec, out, sysVars>>

\* an arbitrary string arriving as qr_data
CodecPresent ==
    /\ edit.kind = "input"
    /\ \E raw \in RawPool : tok' = raw
    /\ edit' = [kind |-> "raw", field |-> 0]
    /\ UNCHANGED <<src, vsec, out, sysVars>>

ReplaceAt(s, i, x) == [j \in 1..Len(s) |-> IF j = i THEN x ELSE s[j]]

\* one character of the signature field replaced
TamperSignature ==
    /\ edit.kind = "generated"
    /\ ~out.done
    /\ LET parts == Split(tok)
           sig == parts[5]
       IN  \E i \in {1, Len(sig)}, c \in SigChars :
               /\ c /= sig[i]
               /\ tok' = Join(ReplaceAt(parts, 5, ReplaceAt(sig, i, c)))
    /\ edit' = [kind |-> "sig", field |-> 5]
    /\ UNCHANGED <<src, vsec, out, sysVars>>

\* one of the four signed fields replaced, the signature kept
TamperField ==
    /\ edit.kind = "generated"
    /\ ~out.done
    /\ LET parts == Split(tok)
       IN  \E i \in 1..4, val \in FieldPool :
               /\ val /= parts[i]
               /\ tok' = Join(ReplaceAt(parts, i, val))
               /\ edit' = [kind |-> "field", field |-> i]
    /\ UNCHANGED <<src, vsec, out, sysVars>>

\* a holder of the secret signs the fields as they now are
Resign ==
    /\ edit.kind = "field"
    /\ ~out.done
    /\ LET parts == Split(tok)
           data == Join(SubSeq(parts, 1, Len(parts) - 1))
       IN  tok' = Join(<<data, HmacHex(src.secret, data)>>)
    /\ edit' = [kind |-> "resigned", field |-> edit.field]
    /\ UNCHANGED <<src, vsec, out, sysVars>>

\* a field dropped or added
TamperCount ==
    /\ edit.kind = "generated"
    /\ ~out.done
    /\ LET parts == Split(tok)
       IN  \/ tok' = Join(SubSeq(parts, 1, 4))
           \/ tok' = Join(Append(parts, <<"f">>))
           \/ tok' = Join(Tail(parts))
    /\ edit' = [kind |-> "count", field |-> 0]
    /\ UNCHANGED <<src, vsec, out, sysVars>>

CodecValidate ==
    /\ edit.kind \notin {"none", "input"}
    /\ ~out.done
    /\ \E secret \in Secrets :
           LET r == validate_qr_payload(tok, secret)
           IN  /\ vsec' = secret
               /\ out' = [done |-> TRUE, raised |-> r.raised, ok |-> r.ok,
                          id |-> r.id]
    /\ UNCHANGED <<tok, src, edit, sysVars>>

NextCodec ==
    \/ CodecGenerate
    \/ CodecPresent
    \/ TamperSignature
    \/ TamperField
    \/ Resign
    \/ TamperCount
    \/ CodecValidate

SpecCodec == InitCodec /\ [][NextCodec]_vars

\* ------------------------------------------------------------ the system
RollNos == 1..MaxStudents

WorkerIds == 1..Len(workers)

RECURSIVE SetToSeqDesc(_)
SetToSeqDesc(S) ==
    IF S = {} THEN <<>>
    ELSE LET m == CHOOSE x \in S : \A y \in S : y <= x
         IN  <<m>> \o SetToSeqDesc(S \ {m})

CurrentPayload(id) ==
    generate_qr_payload(id, students[id].qr_version, students[id].qr_nonce,
                        QR_SECRET)

\* StudentRegistrationView.create, TelegramBot.handle_text,
\* MiniAppRegisterView.post: a new row, PENDING, qr_version 1, a fresh nonce.
\* Roll numbers are unique; the k-th registrant's is k.
Register ==
    /\ Len(students) < MaxStudents
    /\ draws < MaxDraws
    /\ LET roll == Len(students) + 1
       IN  /\ \A i \in StudentIds : students[i].roll_no /= roll
           /\ students' = Append(students,
                  [status |-> "PENDING", qr_version |-> 1,
                   qr_nonce |-> token_hex(draws + 1), roll_no |-> roll])
    /\ draws' = draws + 1
    /\ resp' = NoResp
    /\ UNCHANGED <<codecVars, syncVars, clock, staff_token, dataVars, scanEvents, issued, qr_secret_version,
                   workers, taskQueue>>

\* StudentApprovalView.post up to the save: the row is read, a row that is
\* not PENDING is refused, the QR of an approved student is generated and sent
ApproveLoad ==
    \E w \in WorkerIds, id \in StudentIds, action \in {"approve", "deny"} :
        /\ workers[w].kind = "idle"
        /\ students[id].status = "PENDING"
        /\ workers' = [workers EXCEPT ![w] =
               [IdleWorker EXCEPT
                   !.kind = "approve",
                   !.action = action,
                   !.insts = <<[id |-> id, row |->
                       [students[id] EXCEPT !.status =
                           IF action = "approve" THEN "APPROVED"
                           ELSE "DENIED"]]>>]]
        /\ issued' = IF action = "approve"
                     THEN issued \cup {CurrentPayload(id)}
                     ELSE issued
        /\ resp' = NoResp
        /\ UNCHANGED <<codecVars, syncVars, clock, staff_token, dataVars, students, scanEvents, draws,
                       qr_secret_version, taskQueue>>

\* StudentApprovalView.post: student.save() writes every field of the instance
ApproveSave ==
    \E w \in WorkerIds :
        /\ workers[w].kind = "approve"
        /\ LET inst == workers[w].insts[1]
           IN  students' = [students EXCEPT ![inst.id] = inst.row]
        /\ workers' = [workers EXCEPT ![w] = IdleWorker]
        /\ resp' = NoResp
        /\ UNCHANGED <<codecVars, syncVars, clock, staff_token, dataVars, scanEvents, draws, issued,
                       qr_secret_version, taskQueue>>

\* StudentAdmin.approve_students / deny_students: one UPDATE of the PENDING rows
AdminSetStatus ==
    \E S \in SUBSET StudentIds, st \in {"APPROVED", "DENIED"} :
        /\ S /= {}
        /\ \E id \in S : students[id].status = "PENDING"
        /\ students' = [id \in StudentIds |->
               IF id \in S /\ students[id].status = "PENDING"
               THEN [students[id] EXCEPT !.status = st]
               ELSE students[id]]
        /\ resp' = NoResp
        /\ UNCHANGED <<codecVars, syncVars, clock, staff_token, dataVars, scanEvents, draws, issued,
                       qr_secret_version, workers, taskQueue>>

\* MiniAppAdminView.post: the row is read, its status set and saved, whatever
\* the status was
MiniAppAdminView_post ==
    \E id \in StudentIds, action \in {"approve", "deny"} :
        /\ students' = [students EXCEPT ![id].status =
               IF action = "approve" THEN "APPROVED" ELSE "DENIED"]
        /\ students' /= students
        /\ resp' = NoResp
        /\ UNCHANGED <<codecVars, syncVars, clock, staff_token, dataVars, scanEvents, draws, issued,
                       qr_secret_version, workers, taskQueue>>

\* TelegramBot.handle_admin_callback, data approve_<id> or deny_<id>: the row
\* is read, its status set and saved, whatever the status was; an approval
\* sends the QR of the row
TelegramBot_handle_admin_callback ==
    \E id \in StudentIds, action \in {"approve", "deny"} :
        /\ students' = [students EXCEPT ![id].status =
               IF action = "approve" THEN "APPROVED" ELSE "DENIED"]
        /\ issued' = IF action = "approve"
                     THEN issued \cup {CurrentPayload(id)}
                     ELSE issued
        /\ (students' /= students \/ issued' /= issued)
        /\ resp' = NoResp
        /\ UNCHANGED <<codecVars, syncVars, clock, staff_token, dataVars, scanEvents, draws,
                       qr_secret_version, workers, taskQueue>>

\* TelegramBot.myqr_command, MiniAppQRView.get: an APPROVED student is sent the
\* payload of the stored row
MyQR ==
    \E id \in StudentIds :
        /\ students[id].status = "APPROVED"
        /\ CurrentPayload(id) \notin issued
        /\ issued' = issued \cup {CurrentPayload(id)}
        /\ resp' = NoResp
        /\ UNCHANGED <<codecVars, syncVars, clock, staff_token, students, dataVars, scanEvents, rotVars>>

\* PaymentUploadView.create with PaymentUploadSerializer.validate; a request
\* the serializer rejects writes nothing
PaymentUpload ==
    \E id \in StudentIds, cs \in Days, ce \in Days :
        /\ Len(payments) < MaxPayments
        /\ ~(cs > ce)
        /\ ~\E i \in 1..Len(payments) :
               /\ payments[i].student = id
               /\ payments[i].status \in {"UPLOADED", "VERIFIED"}
               /\ ~(payments[i].cycle_end < cs)
               /\ ~(payments[i].cycle_start > ce)
        /\ payments' = Append(payments,
               [student |-> id, cycle_start |-> cs, cycle_end |-> ce,
                status |-> "UPLOADED"])
        /\ resp' = NoResp
        /\ UNCHANGED <<codecVars, syncVars, clock, staff_token, students, cuts, closures, today, scanEvents,
                       draws, issued, qr_secret_version, workers, taskQueue>>

\* PaymentUploadView.create with PaymentUploadSerializer.validate, by a
\* student who already has a payment row (an upload after a denial)
PaymentReupload ==
    \E id \in StudentIds, cs \in Days, ce \in Days :
        /\ payments /= <<>>
        /\ Len(payments) < MaxPayments + 1
        /\ ~(cs > ce)
        /\ ~\E i \in 1..Len(payments) :
               /\ payments[i].student = id
               /\ payments[i].status \in {"UPLOADED", "VERIFIED"}
               /\ ~(payments[i].cycle_end < cs)
               /\ ~(payments[i].cycle_start > ce)
        /\ payments' = Append(payments,
               [student |-> id, cycle_start |-> cs, cycle_end |-> ce,
                status |-> "UPLOADED"])
        /\ resp' = NoResp
        /\ UNCHANGED <<codecVars, syncVars, clock, staff_token, students, cuts, closures, today, scanEvents,
                       draws, issued, qr_secret_version, workers, taskQueue>>

PaymentVerifyCorrectsLog ==
    \E i \in 1..Len(payments), action \in {"verify", "deny"} :
        /\ payments' = [payments EXCEPT ![i].status =
               IF action = "verify" THEN "VERIFIED" ELSE "DENIED"]
        /\ payments' /= payments
        /\ scanEvents' = [k \in 1..Len(scanEvents) |->
               IF /\ action = "deny"
                  /\ scanEvents[k].student = payments[i].student
                  /\ scanEvents[k].result = "ALLOWED"
               THEN [scanEvents[k] EXCEPT !.result = "BLOCKED_NO_PAYMENT"]
               ELSE scanEvents[k]]
        /\ resp' = NoResp
        /\ UNCHANGED <<codecVars, syncVars, clock, staff_token, students, cuts, closures, today,
                       draws, issued, qr_secret_version, workers, taskQueue>>

\* PaymentVerificationView.post: Payment.verify / Payment.deny
PaymentVerify ==
    \E i \in 1..Len(payments), action \in {"verify", "deny"} :
        /\ payments' = [payments EXCEPT ![i].status =
               IF action = "verify" THEN "VERIFIED" ELSE "DENIED"]
        /\ payments' /= payments
        /\ resp' = NoResp
        /\ UNCHANGED <<codecVars, syncVars, clock, staff_token, students, cuts, closures, today, scanEvents,
                       draws, issued, qr_secret_version, workers, taskQueue>>

\* MessCutView.create with MessCutSerializer.validate; afterCutoff is
\* now.time() > 23:00 on the UTC reading of the clock
MessCutApply ==
    \E id \in StudentIds, iv \in CutDays \X CutDays :
        LET from_date == iv[1]
            to_date == iv[2]
            tomorrow == today + 1
            afterCutoff == UtcMinute > CutoffMinute
        IN  /\ Cardinality(cuts) < MaxCuts
            /\ ~(from_date <= tomorrow /\ afterCutoff)
            /\ ~(from_date > to_date)
            /\ ~(to_date < today)
            /\ ~\E c \in cuts :
                   /\ c.student = id
                   /\ ~(c.to_date < from_date)
                   /\ ~(c.from_date > to_date)
            /\ cuts' = cuts \cup
                   {[student |-> id, from_date |-> from_date,
                     to_date |-> to_date,
                     cutoff_ok |-> (from_date <= tomorrow /\ ~afterCutoff)]}
            /\ resp' = NoResp
            /\ UNCHANGED <<codecVars, syncVars, clock, staff_token, students, payments, closures, today,
                           scanEvents, draws, issued, qr_secret_version,
                           workers, taskQueue>>

\* MessClosureView.create with MessClosureSerializer.validate
ClosureDeclare ==
    \E iv \in Days \X Days :
        LET from_date == iv[1]
            to_date == iv[2]
        IN  /\ Cardinality(closures) < MaxClosures
            /\ ~(from_date > to_date)
            /\ ~\E c \in closures :
                   ~(c.to_date < from_date) /\ ~(c.from_date > to_date)
            /\ closures' = closures \cup
                   {[from_date |-> from_date, to_date |-> to_date]}
            /\ resp' = NoResp
            /\ UNCHANGED <<codecVars, syncVars, clock, staff_token, students, payments, cuts, today,
                           scanEvents, draws, issued, qr_secret_version,
                           workers, taskQueue>>

\* timezone.now().date() moves to the next day
Tick ==
    /\ today < MaxDay
    /\ today' = today + 1
    /\ resp' = NoResp
    /\ UNCHANGED <<codecVars, syncVars, clock, staff_token, students, payments, cuts, closures, scanEvents,
                   draws, issued, qr_secret_version, workers, taskQueue>>

\* timezone.now() reads a later time of the same UTC day
ClockAdvance ==
    /\ clock < Len(Instants)
    /\ clock' = clock + 1
    /\ resp' = NoResp
    /\ UNCHANGED <<codecVars, syncVars, staff_token, students, dataVars, scanEvents,
                   issued, rotVars>>

\* -------------------------------------------------------------- scanning
\* strings a scanner can present: every token the server has sent out, an
\* unsigned string, a token with a forged signature, a signed token for an id
\* that is not stored
UnknownId == MaxStudents + 7

ScanInputs ==
    issued \cup {<<>>,
                 Join(<<<<"v">>, <<"1">>, <<"1">>, token_hex(1), <<"f", "f">>>>),
                 generate_qr_payload(UnknownId, 1, token_hex(1), QR_SECRET)}

MealInputs == Meals \cup {NoMeal}

\* ScanEvent.Meta.unique_together: a row with the same student, meal and
\* scanned_at (auto_now_add, the clock reading at the insert) is stored
DuplicateScan(id, meal) ==
    \E i \in 1..Len(scanEvents) :
        /\ scanEvents[i].student = id
        /\ scanEvents[i].meal = meal
        /\ scanEvents[i].date = today
        /\ scanEvents[i].time = UtcMinute

\* QRScanSerializer.is_valid and create up to the insert: an omitted meal is
\* a KeyError at validated_data['meal']
ScanDecision(payload, meal) ==
    LET v == validate_qr_payload(payload, QR_SECRET)
    IN  IF ~v.ok THEN ErrorResp("invalid_qr")
        ELSE IF v.id[1] \notin StudentIds THEN ErrorResp("student_not_found")
        ELSE IF meal = NoMeal THEN ErrorResp("server_error")
        ELSE [kind |-> "decided", result |-> determine_scan_result(v.id[1]),
              student |-> v.id[1], path |-> "", meal |-> meal]

\* QRScanSerializer.is_valid and create with the insert: a duplicate row is
\* an IntegrityError
ScanOutcome(payload, meal) ==
    LET o == ScanDecision(payload, meal)
    IN  IF o.kind = "decided" /\ DuplicateScan(o.student, meal)
        THEN ErrorResp("integrity_error")
        ELSE o

\* ScanEvent.objects.create; current records whether the presented token is
\* the one the stored (qr_version, qr_nonce) generates
NewScanEvent(o, payload, meal) ==
    [student |-> o.student, meal |-> meal, result |-> o.result,
     date |-> today, time |-> UtcMinute,
     current |-> (payload = CurrentPayload(o.student))]

\* QRScanView.post: the serializer, then the notification and sheet-sync
\* enqueues inside the request's transaction; when an enqueue raises, the
\* transaction is rolled back and the request, made for meal, is a 500
QRScanView_post ==
    \E payload \in ScanInputs, meal \in MealInputs, enqueueOk \in BOOLEAN :
        LET o == ScanOutcome(payload, meal)
        IN  /\ Len(scanEvents) < MaxScans
            /\ IsStaff_has_permission
            /\ IF o.kind = "decided" /\ enqueueOk
               THEN /\ scanEvents' = Append(scanEvents,
                                            NewScanEvent(o, payload, meal))
                    /\ resp' = [o EXCEPT !.path = "api"]
               ELSE /\ resp' = IF o.kind = "decided"
                               THEN [ErrorResp("server_error") EXCEPT
                                        !.path = "api", !.meal = meal]
                               ELSE o
                    /\ UNCHANGED scanEvents
            /\ UNCHANGED <<codecVars, syncVars, clock, staff_token, students, dataVars, rotVars, issued>>

ScannerProcessLogsRejects ==
    \E payload \in ScanInputs, meal \in MealInputs :
        LET o == ScanOutcome(payload, meal)
        IN  /\ Len(scanEvents) < MaxScans
            /\ resp' = IF o.kind = "decided"
                        THEN [o EXCEPT !.path = "session"] ELSE o
            /\ scanEvents' = IF o.kind = "decided"
                             THEN Append(scanEvents,
                                         NewScanEvent(o, payload, meal))
                             ELSE Append(scanEvents,
                                    [student |-> 0, meal |-> meal,
                                     result |-> "BLOCKED_STATUS",
                                     date |-> today, time |-> UtcMinute,
                                     current |-> FALSE])
            /\ UNCHANGED <<codecVars, syncVars, clock, staff_token, students, dataVars, rotVars, issued>>

\* ScannerProcessView.dispatch and post: the session holds a staff token;
\* its row is looked up by hash alone, active or not, expired or not
ScannerProcessView_post ==
    \E payload \in ScanInputs, meal \in MealInputs :
        LET o == ScanOutcome(payload, meal)
        IN  /\ Len(scanEvents) < MaxScans
            /\ staff_token.session
            /\ resp' = IF o.kind = "decided"
                        THEN [o EXCEPT !.path = "session"] ELSE o
            /\ scanEvents' = IF o.kind = "decided"
                             THEN Append(scanEvents,
                                         NewScanEvent(o, payload, meal))
                             ELSE scanEvents
            /\ UNCHANGED <<codecVars, syncVars, clock, staff_token, students, dataVars, rotVars, issued>>

\* ScannerManualView.post: the student is found by roll number and the
\* payload is generated from the stored row; an omitted meal reaches the
\* serializer as None and is_valid() is false
ScannerManualView_post ==
    \E roll \in RollNos, meal \in MealInputs :
        /\ Len(scanEvents) < MaxScans
        /\ staff_token.session
        /\ IF \E id \in StudentIds : students[id].roll_no = roll
           THEN LET id == CHOOSE i \in StudentIds : students[i].roll_no = roll
                    payload == CurrentPayload(id)
                    o == IF meal = NoMeal THEN ErrorResp("invalid_meal")
                         ELSE ScanOutcome(payload, meal)
                IN  /\ resp' = IF o.kind = "decided"
                                THEN [o EXCEPT !.path = "manual"] ELSE o
                    /\ scanEvents' = IF o.kind = "decided"
                                     THEN Append(scanEvents,
                                             NewScanEvent(o, payload, meal))
                                     ELSE scanEvents
           ELSE /\ resp' = ErrorResp("student_not_found")
                /\ UNCHANGED scanEvents
        /\ UNCHANGED <<codecVars, syncVars, clock, staff_token, students, dataVars, rotVars, issued>>

\* ScannerProcessView.post up to ScanEvent.objects.create: the view runs in
\* no transaction, and a second request can be served in between
ScanEventCreateBegin ==
    \E w \in WorkerIds, payload \in ScanInputs, meal \in Meals :
        LET o == ScanDecision(payload, meal)
        IN  /\ workers[w].kind = "idle"
            /\ Len(scanEvents) < MaxScans
            /\ staff_token.session
            /\ IF o.kind = "decided"
               THEN /\ workers' = [workers EXCEPT ![w] =
                           [IdleWorker EXCEPT
                               !.kind = "scan",
                               !.insts = <<[id |-> o.student,
                                   row |-> NewScanEvent(o, payload, meal)]>>]]
                    /\ resp' = NoResp
               ELSE /\ resp' = o
                    /\ UNCHANGED workers
            /\ UNCHANGED <<codecVars, syncVars, clock, staff_token, students, dataVars, scanEvents,
                           draws, issued, qr_secret_version, taskQueue>>

\* ScanEvent.objects.create: scanned_at is the clock reading at the insert,
\* and the unique constraint is checked against the rows stored by then
ScanEventInsert ==
    \E w \in WorkerIds :
        /\ workers[w].kind = "scan"
        /\ LET pending == workers[w].insts[1].row
               e == [pending EXCEPT !.date = today, !.time = UtcMinute]
           IN  IF DuplicateScan(e.student, e.meal)
               THEN /\ resp' = ErrorResp("integrity_error")
                    /\ UNCHANGED scanEvents
               ELSE /\ resp' = [kind |-> "decided", result |-> e.result,
                                student |-> e.student, path |-> "session",
                                meal |-> e.meal]
                    /\ scanEvents' = Append(scanEvents, e)
        /\ workers' = [workers EXCEPT ![w] = IdleWorker]
        /\ UNCHANGED <<codecVars, syncVars, clock, staff_token, students, dataVars, draws, issued,
                       qr_secret_version, taskQueue>>

\* ---------------------------------------------------------- staff tokens
\* StaffTokenAdmin.deactivate_tokens
StaffTokenAdmin_deactivate_tokens ==
    /\ staff_token.active
    /\ staff_token' = [staff_token EXCEPT !.active = FALSE]
    /\ resp' = NoResp
    /\ UNCHANGED <<codecVars, syncVars, clock, students, dataVars, scanEvents, issued,
                   rotVars>>

\* StaffTokenAdmin.activate_tokens
StaffTokenAdmin_activate_tokens ==
    /\ ~staff_token.active
    /\ staff_token' = [staff_token EXCEPT !.active = TRUE]
    /\ resp' = NoResp
    /\ UNCHANGED <<codecVars, syncVars, clock, students, dataVars, scanEvents, issued,
                   rotVars>>

\* time passes the token's expires_at: expires_at < timezone.now() from now on
StaffTokenExpire ==
    /\ ~staff_token.expired
    /\ staff_token' = [staff_token EXCEPT !.expired = TRUE]
    /\ resp' = NoResp
    /\ UNCHANGED <<codecVars, syncVars, clock, students, dataVars, scanEvents, issued,
                   rotVars>>

\* ScannerLoginView.post: an active, valid token is stored in the session
ScannerLoginView_post ==
    /\ ~staff_token.session
    /\ staff_token.active
    /\ StaffToken_is_valid
    /\ staff_token' = [staff_token EXCEPT !.session = TRUE]
    /\ resp' = NoResp
    /\ UNCHANGED <<codecVars, syncVars, clock, students, dataVars, scanEvents, issued,
                   rotVars>>

\* ScannerLogoutView.get: request.session.flush()
ScannerLogoutView_get ==
    /\ staff_token.session
    /\ staff_token' = [staff_token EXCEPT !.session = FALSE]
    /\ resp' = NoResp
    /\ UNCHANGED <<codecVars, syncVars, clock, students, dataVars, scanEvents, issued,
                   rotVars>>

\* -------------------------------------------------------------- rotation
\* Student.regenerate_qr on a loaded instance: version + 1 and a new nonce
\* are computed from the instance and written with update_fields
RegeneratedRow(stored, inst, k) ==
    [stored EXCEPT !.qr_version = inst.qr_version + 1,
                   !.qr_nonce = token_hex(k)]

CanRegenerate(inst) == inst.qr_version < MaxVersion /\ draws < MaxDraws

\* StudentAdmin.regenerate_qr: the selected rows are read by the loop's query
AdminRegenerateLoad ==
    \E w \in WorkerIds, S \in SUBSET StudentIds :
        /\ S /= {}
        /\ workers[w].kind = "idle"
        /\ workers' = [workers EXCEPT ![w] =
               [IdleWorker EXCEPT
                   !.kind = "admin_rotate",
                   !.insts = [i \in 1..Cardinality(S) |->
                       [id |-> SetToSeqDesc(S)[i],
                        row |-> students[SetToSeqDesc(S)[i]]]]]]
        /\ resp' = NoResp
        /\ UNCHANGED <<codecVars, syncVars, clock, staff_token, students, dataVars, scanEvents, draws,
                       issued, qr_secret_version, taskQueue>>

\* StudentAdmin.regenerate_qr: student.regenerate_qr() for the next row
AdminRegenerateSave ==
    \E w \in WorkerIds :
        /\ workers[w].kind = "admin_rotate"
        /\ LET inst == workers[w].insts[1]
               rest == Tail(workers[w].insts)
           IN  /\ CanRegenerate(inst.row)
               /\ students' = [students EXCEPT ![inst.id] =
                      RegeneratedRow(students[inst.id], inst.row, draws + 1)]
               /\ workers' = [workers EXCEPT ![w] =
                      IF rest = <<>> THEN IdleWorker
                      ELSE [workers[w] EXCEPT !.insts = rest]]
        /\ draws' = draws + 1
        /\ resp' = NoResp
        /\ UNCHANGED <<codecVars, syncVars, clock, staff_token, dataVars, scanEvents, issued,
                       qr_secret_version, taskQueue>>

\* BulkQRRegenerateView.post: qr_secret_version + 1 and a task for the ids of
\* the APPROVED students; a failed enqueue rolls the request back and leaves
\* the state as it was
BulkQRRegenerateView_post ==
    /\ qr_secret_version < MaxSecretVersion
    /\ Len(taskQueue) < MaxTasks
    /\ qr_secret_version' = qr_secret_version + 1
    /\ taskQueue' = Append(taskQueue,
           SetToSeqDesc({id \in StudentIds :
                            students[id].status = "APPROVED"}))
    /\ resp' = NoResp
    /\ UNCHANGED <<codecVars, syncVars, clock, staff_token, students, dataVars, scanEvents, draws,
                   issued, workers>>

\* BulkQRRegenerateView.post up to settings_obj.save(): Settings.get_settings()
\* reads the row; the request's transaction takes no lock on it
BulkQRRegenerateLoad ==
    \E w \in WorkerIds :
        /\ workers[w].kind = "idle"
        /\ qr_secret_version < MaxSecretVersion
        /\ workers' = [workers EXCEPT ![w] =
               [IdleWorker EXCEPT
                   !.kind = "bulk",
                   !.insts = <<[id |-> 0,
                       row |-> [qr_secret_version |-> qr_secret_version]]>>]]
        /\ resp' = NoResp
        /\ UNCHANGED <<codecVars, syncVars, clock, staff_token, students, dataVars, scanEvents, draws,
                       issued, qr_secret_version, taskQueue>>

\* BulkQRRegenerateView.post: the loaded value + 1 is saved, the ids of the
\* APPROVED students are read and process_qr_regeneration is enqueued
BulkQRRegenerateSave ==
    \E w \in WorkerIds :
        /\ workers[w].kind = "bulk"
        /\ Len(taskQueue) < MaxTasks
        /\ qr_secret_version' = workers[w].insts[1].row.qr_secret_version + 1
        /\ taskQueue' = Append(taskQueue,
               SetToSeqDesc({id \in StudentIds :
                                students[id].status = "APPROVED"}))
        /\ workers' = [workers EXCEPT ![w] = IdleWorker]
        /\ resp' = NoResp
        /\ UNCHANGED <<codecVars, syncVars, clock, staff_token, students, dataVars, scanEvents, draws,
                       issued>>

\* the id lists process_qr_regeneration can be called with: ids of stored
\* students and an id no student has, without repetition
IdLists ==
    {l \in UNION {[1..n -> StudentIds \cup {UnknownId}] : n \in 1..2} :
        \A i, j \in 1..Len(l) : i /= j => l[i] /= l[j]}

\* process_qr_regeneration.delay(student_ids) with any id list
process_qr_regeneration_delay ==
    \E ids \in IdLists :
        /\ Len(taskQueue) < MaxTasks
        /\ taskQueue' = Append(taskQueue, ids)
        /\ resp' = NoResp
        /\ UNCHANGED <<codecVars, syncVars, clock, staff_token, students, dataVars, scanEvents, draws,
                       issued, qr_secret_version, workers>>

\* a celery worker takes process_qr_regeneration(student_ids) off the queue
TaskStart ==
    \E w \in WorkerIds :
        /\ workers[w].kind = "idle"
        /\ taskQueue /= <<>>
        /\ workers' = [workers EXCEPT ![w] =
               [IdleWorker EXCEPT !.kind = "task", !.todo = Head(taskQueue)]]
        /\ taskQueue' = Tail(taskQueue)
        /\ resp' = NoResp
        /\ UNCHANGED <<codecVars, syncVars, clock, staff_token, students, dataVars, scanEvents, draws,
                       issued, qr_secret_version>>

\* process_qr_regeneration: Student.objects.get(id=student_id)
TaskGet ==
    \E w \in WorkerIds :
        /\ workers[w].kind = "task"
        /\ workers[w].insts = <<>>
        /\ workers[w].todo /= <<>>
        /\ LET id == Head(workers[w].todo)
           IN  workers' = [workers EXCEPT ![w] =
                   IF id \in StudentIds
                   THEN [workers[w] EXCEPT
                            !.insts = <<[id |-> id, row |-> students[id]]>>]
                   ELSE [workers[w] EXCEPT
                            !.todo = Tail(workers[w].todo),
                            !.failed = Append(workers[w].failed, id)]]
        /\ resp' = NoResp
        /\ UNCHANGED <<codecVars, syncVars, clock, staff_token, students, dataVars, scanEvents, draws,
                       issued, qr_secret_version, taskQueue>>

TaskRegenerateAborts ==
    \E w \in WorkerIds, sent \in BOOLEAN :
        /\ workers[w].kind = "task"
        /\ workers[w].insts /= <<>>
        /\ LET inst == workers[w].insts[1]
               row == RegeneratedRow(students[inst.id], inst.row, draws + 1)
           IN  /\ CanRegenerate(inst.row)
               /\ students' = [students EXCEPT ![inst.id] = row]
               /\ issued' = IF sent
                            THEN issued \cup
                                 {generate_qr_payload(inst.id,
                                      inst.row.qr_version + 1,
                                      token_hex(draws + 1), QR_SECRET)}
                            ELSE issued
               /\ workers' = [workers EXCEPT ![w] =
                      [workers[w] EXCEPT
                          !.insts = <<>>,
                          !.todo = IF sent THEN Tail(workers[w].todo)
                                   ELSE <<>>,
                          !.failed = IF sent THEN workers[w].failed
                                     ELSE workers[w].todo]]
        /\ draws' = draws + 1
        /\ resp' = NoResp
        /\ UNCHANGED <<codecVars, syncVars, clock, staff_token, dataVars, scanEvents, qr_secret_version,
                       taskQueue>>

\* process_qr_regeneration: regenerate_qr(), then the QR image and the
\* notification; sent is FALSE when one of the two raises after the save
TaskRegenerate ==
    \E w \in WorkerIds, sent \in BOOLEAN :
        /\ workers[w].kind = "task"
        /\ workers[w].insts /= <<>>
        /\ LET inst == workers[w].insts[1]
               row == RegeneratedRow(students[inst.id], inst.row, draws + 1)
           IN  /\ CanRegenerate(inst.row)
               /\ students' = [students EXCEPT ![inst.id] = row]
               /\ issued' = IF sent
                            THEN issued \cup
                                 {generate_qr_payload(inst.id,
                                      inst.row.qr_version + 1,
                                      token_hex(draws + 1), QR_SECRET)}
                            ELSE issued
               /\ workers' = [workers EXCEPT ![w] =
                      [workers[w] EXCEPT
                          !.insts = <<>>,
                          !.todo = Tail(workers[w].todo),
                          !.failed = IF sent THEN workers[w].failed
                                     ELSE Append(workers[w].failed, inst.id)]]
        /\ draws' = draws + 1
        /\ resp' = NoResp
        /\ UNCHANGED <<codecVars, syncVars, clock, staff_token, dataVars, scanEvents, qr_secret_version,
                       taskQueue>>

\* process_qr_regeneration: the loop is over; the failed ids are retried
TaskFinish ==
    \E w \in WorkerIds :
        /\ workers[w].kind = "task"
        /\ workers[w].insts = <<>>
        /\ workers[w].todo = <<>>
        /\ taskQueue' = IF workers[w].failed /= <<>>
                        THEN Append(taskQueue, workers[w].failed)
                        ELSE taskQueue
        /\ workers' = [workers EXCEPT ![w] = IdleWorker]
        /\ resp' = NoResp
        /\ UNCHANGED <<codecVars, syncVars, clock, staff_token, students, dataVars, scanEvents, draws,
                       issued, qr_secret_version>>

\* -------------------------------------------------------- specifications
\* the decision engine with the handlers that write what it reads
Init == CodecIdle /\ SystemInit(0)

Next ==
    \/ Register
    \/ AdminSetStatus
    \/ MyQR
    \/ PaymentUpload
    \/ PaymentVerify
    \/ MessCutApply
    \/ ClosureDeclare
    \/ Tick
    \/ QRScanView_post
    \/ ScannerProcessView_post
    \/ ScannerManualView_post

Spec == Init /\ [][Next]_vars

\* issuing, rotating and scanning tokens; one admin session rotates
InitStale == CodecIdle /\ SystemInit(1)

NextStale ==
    \/ Register
    \/ AdminSetStatus
    \/ MyQR
    \/ PaymentUpload
    \/ PaymentVerify
    \/ AdminRegenerateLoad
    \/ AdminRegenerateSave
    \/ QRScanView_post
    \/ ScannerProcessView_post
    \/ ScannerManualView_post

SpecStale == InitStale /\ [][NextStale]_vars

\* the writers of a student's QR fields, run by two concurrent workers
InitRotate == CodecIdle /\ SystemInit(2)

NextRotate ==
    \/ Register
    \/ ApproveLoad
    \/ ApproveSave
    \/ AdminSetStatus
    \/ AdminRegenerateLoad
    \/ AdminRegenerateSave
    \/ BulkQRRegenerateView_post
    \/ TaskStart
    \/ TaskGet
    \/ TaskRegenerate
    \/ TaskFinish

SpecRotate == InitRotate /\ [][NextRotate]_vars

\* one UTC day of the wall clock, over which the facility-local date changes
InitClock == CodecIdle /\ SystemInit(1)

NextClock ==
    \/ Register
    \/ AdminSetStatus
    \/ MyQR
    \/ PaymentUpload
    \/ PaymentVerify
    \/ MessCutApply
    \/ ClockAdvance
    \/ ScannerProcessView_post

SpecClock == InitClock /\ [][NextClock]_vars

\* uploads and reviews of payments, with a second upload by the same student
InitPayments == CodecIdle /\ SystemInit(1)

NextPayments ==
    \/ Register
    \/ AdminSetStatus
    \/ PaymentUpload
    \/ PaymentReupload
    \/ PaymentVerify
    \/ Tick

SpecPayments == InitPayments /\ [][NextPayments]_vars

\* two registered students, PENDING, as two registrations leave them
TwoRegistered ==
    /\ students = <<[status |-> "PENDING", qr_version |-> 1,
                     qr_nonce |-> token_hex(1), roll_no |-> 1],
                    [status |-> "PENDING", qr_version |-> 1,
                     qr_nonce |-> token_hex(2), roll_no |-> 2]>>
    /\ payments = <<>>
    /\ cuts = {}
    /\ closures = {}
    /\ today = 1
    /\ clock = 1
    /\ scanEvents = <<>>
    /\ resp = NoResp
    /\ draws = 2
    /\ issued = {}
    /\ qr_secret_version = 1
    /\ taskQueue = <<>>
    /\ staff_token = StaffLoggedIn
    /\ sheets_queue = <<>>
    /\ dlq_logs = <<>>

\* bulk rotation requests of two admin sessions and the task they enqueue
InitBulk == CodecIdle /\ TwoRegistered /\ workers = [i \in 1..2 |-> IdleWorker]

NextBulk ==
    \/ AdminSetStatus
    \/ BulkQRRegenerateLoad
    \/ BulkQRRegenerateSave
    \/ TaskStart
    \/ TaskGet
    \/ TaskRegenerate
    \/ TaskFinish

SpecBulk == InitBulk /\ [][NextBulk]_vars

\* one bulk rotation request at a time, its run and the retries of the run
InitRetry == CodecIdle /\ TwoRegistered /\ workers = [i \in 1..1 |-> IdleWorker]

NextRetry ==
    \/ AdminSetStatus
    \/ BulkQRRegenerateLoad
    \/ BulkQRRegenerateSave
    \/ TaskStart
    \/ TaskGet
    \/ TaskRegenerate
    \/ TaskFinish

SpecRetry == InitRetry /\ [][NextRetry]_vars

\* process_qr_regeneration on any id list, with a worker that keeps taking
\* queued tasks and running them to their end
InitChain == CodecIdle /\ TwoRegistered /\ workers = [i \in 1..1 |-> IdleWorker]

NextChain ==
    \/ process_qr_regeneration_delay
    \/ TaskStart
    \/ TaskGet
    \/ TaskRegenerate
    \/ TaskFinish

SpecChain ==
    /\ InitChain
    /\ [][NextChain]_vars
    /\ WF_vars(TaskStart)
    /\ WF_vars(TaskGet)
    /\ WF_vars(TaskRegenerate)
    /\ WF_vars(TaskFinish)

\* the four ways an admin approves or denies a registration
InitApproval ==
    CodecIdle /\ TwoRegistered /\ workers = [i \in 1..2 |-> IdleWorker]

NextApproval ==
    \/ ApproveLoad
    \/ ApproveSave
    \/ AdminSetStatus
    \/ MiniAppAdminView_post
    \/ TelegramBot_handle_admin_callback

SpecApproval == InitApproval /\ [][NextApproval]_vars

\* -------------------------------------------------- sheet sync and the DLQ
\* @shared_task(bind=True, max_retries=3) of sync_to_google_sheets
SyncMaxRetries == 3

\* DLQLog.max_retries default
DLQMaxRetries == 3

\* DLQLog.objects.create(operation, payload, error_message): the defaults of
\* the other columns
NewDLQLog == [retry_count |-> 0, max_retries |-> DLQMaxRetries, resolved |-> FALSE]

\* DLQLog.can_retry
DLQLog_can_retry(row) == ~row.resolved /\ row.retry_count < row.max_retries

\* the sequence q without its i-th element
RemoveAt(q, i) == [k \in 1..(Len(q) - 1) |-> IF k < i THEN q[k] ELSE q[k + 1]]

\* sync_to_google_sheets.delay(sheet_name, record_id) by a view
sync_to_google_sheets_delay ==
    /\ Len(sheets_queue) < MaxSync
    /\ sheets_queue' = Append(sheets_queue, [retries |-> 0])
    /\ resp' = NoResp
    /\ UNCHANGED <<codecVars, clock, staff_token, students, dataVars, scanEvents,
                   issued, rotVars, dlq_logs>>

\* one attempt of sync_to_google_sheets. _get_record_data is a function local
\* to the task body, never an attribute of the task, so self._get_record_data
\* raises on every attempt and the except branch runs: a DLQLog row at
\* self.request.retries >= self.max_retries, self.retry otherwise
sync_to_google_sheets ==
    \E i \in 1..Len(sheets_queue) :
        /\ IF sheets_queue[i].retries >= SyncMaxRetries
           THEN /\ Len(dlq_logs) < MaxDlq
                /\ dlq_logs' = Append(dlq_logs, NewDLQLog)
                /\ sheets_queue' = RemoveAt(sheets_queue, i)
           ELSE /\ sheets_queue' =
                       [sheets_queue EXCEPT ![i].retries = @ + 1]
                /\ UNCHANGED dlq_logs
        /\ resp' = NoResp
        /\ UNCHANGED <<codecVars, clock, staff_token, students, dataVars,
                       scanEvents, issued, rotVars>>

\* DLQLog.objects.filter(resolved=False), newest first, as the for loop of
\* process_dlq_retries loads it
PendingDLQ ==
    LET ids == SetToSeqDesc({i \in 1..Len(dlq_logs) : ~dlq_logs[i].resolved})
    IN  [k \in 1..Len(ids) |-> [id |-> ids[k], row |-> dlq_logs[ids[k]]]]

\* process_dlq_retries starts on a worker, from the hourly beat schedule or
\* from DLQLogAdmin.retry_operations: the pending rows are loaded
process_dlq_retries_begin ==
    \E w \in WorkerIds :
        /\ workers[w].kind = "idle"
        /\ PendingDLQ /= <<>>
        /\ workers' = [workers EXCEPT ![w] =
               [IdleWorker EXCEPT !.kind = "dlq", !.insts = PendingDLQ]]
        /\ resp' = NoResp
        /\ UNCHANGED <<codecVars, syncVars, clock, staff_token, students,
                       dataVars, scanEvents, issued, draws, qr_secret_version,
                       taskQueue>>

\* one iteration of the for loop of process_dlq_retries on the loaded row:
\* skipped unless can_retry(); re-enqueued and saved resolved; or, when
\* delay raises, saved with retry_count + 1
process_dlq_retries_step ==
    \E w \in WorkerIds, delayOk \in BOOLEAN :
        /\ workers[w].kind = "dlq"
        /\ LET e == Head(workers[w].insts)
               rest == Tail(workers[w].insts)
           IN  /\ IF ~DLQLog_can_retry(e.row)
                      THEN UNCHANGED syncVars
                      ELSE IF delayOk
                      THEN /\ Len(sheets_queue) < MaxSync
                           /\ sheets_queue' =
                                  Append(sheets_queue, [retries |-> 0])
                           /\ dlq_logs' = [dlq_logs EXCEPT ![e.id] =
                                  [e.row EXCEPT !.resolved = TRUE]]
                      ELSE /\ dlq_logs' = [dlq_logs EXCEPT ![e.id] =
                                  [e.row EXCEPT !.retry_count = @ + 1]]
                           /\ UNCHANGED sheets_queue
               /\ workers' = [workers EXCEPT ![w] =
                      IF rest = <<>> THEN IdleWorker
                      ELSE [workers[w] EXCEPT !.insts = rest]]
        /\ resp' = NoResp
        /\ UNCHANGED <<codecVars, clock, staff_token, students, dataVars,
                       scanEvents, issued, draws, qr_secret_version, taskQueue>>

\* DLQLogAdmin.mark_resolved
DLQLogAdmin_mark_resolved ==
    \E i \in 1..Len(dlq_logs) :
        /\ ~dlq_logs[i].resolved
        /\ dlq_logs' = [dlq_logs EXCEPT ![i].resolved = TRUE]
        /\ resp' = NoResp
        /\ UNCHANGED <<codecVars, clock, staff_token, students, dataVars,
                       scanEvents, issued, rotVars, sheets_queue>>

\* sync tasks of the sheets queue and two Celery workers running
\* process_dlq_retries
InitSync == CodecIdle /\ SystemInit(2)

NextSync ==
    \/ sync_to_google_sheets_delay
    \/ sync_to_google_sheets
    \/ process_dlq_retries_begin
    \/ process_dlq_retries_step
    \/ DLQLogAdmin_mark_resolved

SpecSync == InitSync /\ [][NextSync]_vars

\* scans through the bearer-token API and a scanner web session while the
\* staff token is deactivated, reactivated or expires
InitStaff == CodecIdle /\ SystemInit(0)

NextStaff ==
    \/ Register
    \/ AdminSetStatus
    \/ MyQR
    \/ StaffTokenAdmin_deactivate_tokens
    \/ StaffTokenAdmin_activate_tokens
    \/ StaffTokenExpire
    \/ ScannerLoginView_post
    \/ ScannerLogoutView_get
    \/ QRScanView_post
    \/ ScannerProcessView_post

SpecStaff == InitStaff /\ [][NextStaff]_vars

\* two scanner sessions served concurrently
InitScanRace == CodecIdle /\ SystemInit(2)

NextScanRace ==
    \/ Register
    \/ AdminSetStatus
    \/ MyQR
    \/ ClockAdvance
    \/ ScanEventCreateBegin
    \/ ScanEventInsert

SpecScanRace == InitScanRace /\ [][NextScanRace]_vars

\* ------------------------------------------------------ properties of the codec
Rejected == out.ok = FALSE /\ out.id = NoId

\* C4: validating a generated token under the secret that signed it returns
\* (true, id) with the id that was signed.
C4_RoundTrip ==
    (out.done /\ edit.kind = "generated" /\ vsec = src.secret)
        => (out.ok = TRUE /\ out.id = <<src.id>> /\ ~out.raised)

C4_Witness ==
    /\ out.done
    /\ edit.kind = "generated"
    /\ vsec = src.secret
    /\ src.id >= 10
    /\ src.qr_version > 1

\* C5: a generated token whose signature field was changed, or one of whose
\* four signed fields was changed with the signature kept, or which is
\* validated under another secret than the one that signed it, is rejected
\* with (false, None).
C5_TamperRejected ==
    (out.done /\ (\/ edit.kind \in {"sig", "field"}
                  \/ (edit.kind = "generated" /\ vsec /= src.secret)))
        => Rejected

C5_Witness ==
    /\ out.done
    /\ edit.kind = "field"
    /\ edit.field = 3
    /\ vsec = src.secret
    /\ Len(Split(tok)) = 5
    /\ Rejected

\* C6: validation returns (false, None) whenever the token does not have
\* exactly 5 fields, or entity_id or qr_version does not parse as an integer,
\* or the signature does not match the recomputed HMAC.
C6_FailsClosed ==
    out.done =>
        LET parts == Split(tok)
        IN  (\/ Len(parts) /= 5
             \/ StrToInt(parts[2]).exc
             \/ StrToInt(parts[3]).exc
             \/ parts[5] /= HmacHex(vsec, Join(SubSeq(parts, 1, 4))))
                => Rejected

\* C7: validation never raises to its caller; it returns a (bool, optional
\* id) pair whose id is None whenever the bool is false.
C7_NeverRaises ==
    out.done =>
        /\ out.raised = FALSE
        /\ out.ok \in BOOLEAN
        /\ (out.ok = FALSE => out.id = NoId)
        /\ (out.ok = TRUE => Len(out.id) = 1)

C7_Witness ==
    /\ out.done
    /\ ValidateTry(tok, vsec).exc
    /\ edit.kind = "resigned"
    /\ Rejected

\* ------------------------------------------- properties of the decision engine
PaidOn(id, d) ==
    \E i \in 1..Len(payments) :
        /\ payments[i].student = id
        /\ payments[i].status = "VERIFIED"
        /\ payments[i].cycle_start <= d
        /\ d <= payments[i].cycle_end

CutOn(id, d) ==
    \E c \in cuts : c.student = id /\ c.from_date <= d /\ d <= c.to_date

ClosedOn(d) == \E c \in closures : c.from_date <= d /\ d <= c.to_date

FirstFailingCheck(id) ==
    CASE students[id].status /= "APPROVED" -> "BLOCKED_STATUS"
      [] students[id].status = "APPROVED" /\ ~PaidOn(id, today)
            -> "BLOCKED_NO_PAYMENT"
      [] students[id].status = "APPROVED" /\ PaidOn(id, today)
         /\ CutOn(id, today) -> "BLOCKED_CUT"
      [] students[id].status = "APPROVED" /\ PaidOn(id, today)
         /\ ~CutOn(id, today) /\ ClosedOn(today) -> "BLOCKED_CLOSURE"
      [] OTHER -> "ALLOWED"

\* C1: a scan whose token validates and whose entity exists is decided by the
\* first failing check in the order status, payment, cut, closure, and is
\* ALLOWED when none fails; a PENDING or DENIED entity is BLOCKED_STATUS
\* whatever its payments, and an entity with an active cut and an active
\* closure is BLOCKED_CUT.
C1_DecisionOrder ==
    resp.kind = "decided" =>
        /\ resp.student \in StudentIds
        /\ resp.result = FirstFailingCheck(resp.student)
        /\ scanEvents /= <<>>
        /\ scanEvents[Len(scanEvents)].result = resp.result

C1_Witness ==
    /\ resp.kind = "decided"
    /\ resp.result = "BLOCKED_CUT"
    /\ CutOn(resp.student, today)
    /\ ClosedOn(today)

\* C3: every ScanEvent recorded with result ALLOWED is recorded for an entity
\* that on the scan's date is APPROVED, has a VERIFIED payment covering the
\* date, has no mess cut covering it, and no closure covers it, whichever
\* scan path recorded it.
C3_AllowedGrounds ==
    [][\A i \in 1..Len(scanEvents') :
          (i > Len(scanEvents) /\ scanEvents'[i].result = "ALLOWED") =>
              LET e == scanEvents'[i]
              IN  /\ e.student \in StudentIds
                  /\ students[e.student].status = "APPROVED"
                  /\ PaidOn(e.student, e.date)
                  /\ ~CutOn(e.student, e.date)
                  /\ ~ClosedOn(e.date)
                  /\ e.date = today]_vars

C3_Witness ==
    /\ resp.kind = "decided"
    /\ resp.result = "ALLOWED"
    /\ resp.path = "manual"
    /\ scanEvents /= <<>>
    /\ scanEvents[Len(scanEvents)].result = "ALLOWED"
    /\ \E i \in 1..Len(payments) : payments[i].cycle_end = today

\* C2: once an entity is rotated, a scan presenting a token generated from
\* its pre-rotation (qr_version, qr_nonce) is rejected and never recorded as
\* ALLOWED: every ALLOWED event was decided on the token the stored row
\* generates at the time of the scan.
C2_StaleRejected ==
    \A i \in 1..Len(scanEvents) :
        scanEvents[i].result = "ALLOWED" => scanEvents[i].current

\* ---------------------------------------------------- properties of rotation
\* worker w commits a regenerate_qr() in this step
RotationWrite(w) ==
    /\ workers[w].kind \in {"admin_rotate", "task"}
    /\ workers[w].insts /= <<>>
    /\ workers'[w] /= workers[w]
    /\ draws' = draws + 1

NoncesInUse == {students[i].qr_nonce : i \in StudentIds}

\* C8: each rotation of an entity increases its stored qr_version by exactly
\* 1, replaces its stored qr_nonce with a freshly generated value different
\* from the previous one, and changes no other field of the entity.
C8_RotateStep ==
    [][\A w \in WorkerIds :
          RotationWrite(w) =>
              LET id == workers[w].insts[1].id
              IN  /\ students'[id].qr_version = students[id].qr_version + 1
                  /\ students'[id].qr_nonce /= students[id].qr_nonce
                  /\ students'[id].qr_nonce \notin NoncesInUse
                  /\ students'[id].status = students[id].status
                  /\ students'[id].roll_no = students[id].roll_no]_vars

\* C9: in every transition of an entity's stored state, under any
\* interleaving of registration, approval, individual rotation and bulk
\* rotation, qr_version does not decrease and qr_nonce changes if and only
\* if qr_version changes.
C9_VersionNonce ==
    [][\A id \in StudentIds :
          /\ students'[id].qr_version >= students[id].qr_version
          /\ (students'[id].qr_nonce /= students[id].qr_nonce)
                 <=> (students'[id].qr_version /= students[id].qr_version)]_vars

\* C10: when two concurrent rotations of one entity have both read the row
\* at version v, the write of the later one leaves the row at v + 2 with the
\* nonce drawn by that rotation: no increment is lost.
C10_NoLostIncrement ==
    [][\A w \in WorkerIds :
          (/\ RotationWrite(w)
           /\ LET inst == workers[w].insts[1]
              IN  students[inst.id].qr_version = inst.row.qr_version + 1) =>
              LET inst == workers[w].insts[1]
              IN  /\ students'[inst.id].qr_version = inst.row.qr_version + 2
                  /\ students'[inst.id].qr_nonce = token_hex(draws')]_vars

\* ------------------------------------------------ properties of the scan log
\* the serializer got past the token check and the entity lookup and computed
\* a result: the caller has the decision, or the request failed after it
ReachedDecision(r) ==
    \/ r.kind = "decided"
    \/ r.kind = "error" /\ r.result = "server_error"

\* C11: every scan that reaches a decision (token valid, entity found) writes
\* exactly one ScanEvent, whose entity is the token's entity, whose meal is
\* the request's meal and whose result is the result returned to the caller.
C11_OneEventPerDecision ==
    [][ReachedDecision(resp') =>
          /\ resp'.kind = "decided"
          /\ Len(scanEvents') = Len(scanEvents) + 1
          /\ SubSeq(scanEvents', 1, Len(scanEvents)) = scanEvents
          /\ LET e == scanEvents'[Len(scanEvents')]
             IN  /\ e.student = resp'.student
                 /\ e.meal = resp'.meal
                 /\ e.result = resp'.result]_vars

\* the scan was turned away at the token check or at the entity lookup
RequestLevelError(r) ==
    r.kind = "error" /\ r.result \in {"invalid_qr", "student_not_found"}

\* C12: a scan whose token fails validation, or whose token validates but
\* names an entity id that is not stored, ends in a request-level error: no
\* ScanEvent is written and no entity, payment, cut or closure record is
\* changed.
C12_RejectedWritesNothing ==
    [][(Len(scanEvents') > Len(scanEvents) \/ RequestLevelError(resp')) =>
          /\ RequestLevelError(resp') =>
                 /\ scanEvents' = scanEvents
                 /\ students' = students
                 /\ payments' = payments
                 /\ cuts' = cuts
                 /\ closures' = closures
          /\ Len(scanEvents') > Len(scanEvents) =>
                 /\ resp'.kind = "decided"
                 /\ scanEvents'[Len(scanEvents')].student \in StudentIds]_vars

C12_Witness ==
    /\ resp.kind = "error"
    /\ resp.result = "student_not_found"
    /\ resp.path = ""
    /\ students /= <<>>
    /\ payments /= <<>>
    /\ scanEvents = <<>>

\* C13: scans are not deduplicated: two scans of the same entity for the same
\* meal, however close together they are processed, each complete with their
\* own decision and their own ScanEvent; the insert of a decided scan is
\* never rejected because of an earlier event.
C13_NoDeduplication ==
    [][\A w \in WorkerIds :
          (workers[w].kind = "scan" /\ workers'[w].kind = "idle") =>
              /\ resp'.kind = "decided"
              /\ Len(scanEvents') = Len(scanEvents) + 1
              /\ scanEvents'[Len(scanEvents')].student
                     = workers[w].insts[1].row.student
              /\ scanEvents'[Len(scanEvents')].meal
                     = workers[w].insts[1].row.meal]_vars

C15_InclusiveWindows ==
    (resp.kind = "decided" /\ students[resp.student].status = "APPROVED") =>
        LET id == resp.student
            mine == {i \in 1..Len(payments) :
                        payments[i].student = id
                        /\ payments[i].status = "VERIFIED"}
            myCuts == {c \in cuts : c.student = id}
        IN  /\ (\E i \in mine : /\ payments[i].cycle_start = today
                               /\ payments[i].cycle_end = today)
                   => resp.result /= "BLOCKED_NO_PAYMENT"
            /\ (\A i \in mine : \/ payments[i].cycle_end <= today - 1
                               \/ payments[i].cycle_start >= today + 1)
                   => resp.result = "BLOCKED_NO_PAYMENT"
            /\ (PaidOn(id, today)
                /\ \E c \in myCuts : c.from_date = today /\ c.to_date = today)
                   => resp.result = "BLOCKED_CUT"
            /\ (\A c \in myCuts : \/ c.to_date <= today - 1
                                 \/ c.from_date >= today + 1)
                   => resp.result /= "BLOCKED_CUT"

C15_Witness ==
    /\ resp.kind = "decided"
    /\ resp.result = "BLOCKED_CUT"
    /\ scanEvents /= <<>>
    /\ \E i \in 1..Len(payments) :
           /\ payments[i].cycle_start = today
           /\ payments[i].cycle_end = today
    /\ \E c \in cuts : c.from_date = today /\ c.to_date = today

\* ------------------------------------------------- properties of the clock

\* the decision cascade evaluated on date d
FirstFailingCheckOn(id, d) ==
    CASE students[id].status /= "APPROVED" -> "BLOCKED_STATUS"
      [] students[id].status = "APPROVED" /\ ~PaidOn(id, d)
            -> "BLOCKED_NO_PAYMENT"
      [] students[id].status = "APPROVED" /\ PaidOn(id, d) /\ CutOn(id, d)
            -> "BLOCKED_CUT"
      [] students[id].status = "APPROVED" /\ PaidOn(id, d) /\ ~CutOn(id, d)
         /\ ClosedOn(d) -> "BLOCKED_CLOSURE"
      [] OTHER -> "ALLOWED"

\* C16: the date the scan decision uses as 'today' for the payment, cut and
\* closure checks is the calendar date in the facility timezone at the scan
\* instant, not the UTC date: every decision equals the cascade evaluated on
\* the facility-local date, also at instants where the two dates differ.
C16_FacilityLocalToday ==
    resp.kind = "decided" =>
        resp.result = FirstFailingCheckOn(resp.student, LocalDate)

\* the meal whose window contains minute t of the day, NoMeal when none does
MealWindowAt(t) ==
    IF \E ml \in Meals : MEAL_TIMINGS[ml].start <= t /\ t <= MEAL_TIMINGS[ml].end
    THEN CHOOSE ml \in Meals :
             MEAL_TIMINGS[ml].start <= t /\ t <= MEAL_TIMINGS[ml].end
    ELSE NoMeal

\* C17: a scan that omits the meal gets the meal whose window (both ends
\* inclusive) contains the facility-local time, and its ScanEvent carries that
\* meal; when no window contains the time the request is rejected as invalid
\* and no event is written.  So a scan of a valid token of a stored student
\* never fails after the decision: it either appends an event with a meal, or
\* is rejected as invalid at a time outside every window.
C17_MealAutoDetect ==
    [][(resp'.kind = "error"
        /\ resp'.result \notin {"invalid_qr", "student_not_found",
                                "integrity_error"}) =>
            /\ resp'.result = "invalid_meal"
            /\ MealWindowAt(LocalMinute) = NoMeal
            /\ scanEvents' = scanEvents]_vars

\* C18: a mess-cut application whose from_date is today or tomorrow is
\* accepted only if the facility-local time of day is at or before the cutoff
\* (23:00): at 22:59 it is accepted, at 23:01 it is rejected and no MessCut is
\* created.  Every cut a step creates with from_date up to the facility-local
\* tomorrow is created at a local time at or before the cutoff.
C18_CutoffFacilityLocal ==
    [][\A c \in cuts' \ cuts :
           c.from_date <= LocalDate + 1 => LocalMinute <= CutoffMinute]_vars

\* C19: every MessCut a cut application creates is stamped with cutoff_ok
\* equal to whether the cutoff rule was satisfied at creation: true when
\* from_date is the day after tomorrow or later, true when from_date is today
\* or tomorrow and the time was at or before the cutoff, false only when the
\* rule was not satisfied.
C19_CutoffStamp ==
    [][\A c \in cuts' \ cuts :
           c.cutoff_ok = (\/ c.from_date >= today + 2
                          \/ UtcMinute <= CutoffMinute)]_vars

\* ----------------------------------------------- properties of the payments

\* C20: in every state reachable by payment uploads and admin verify/deny
\* actions, no two payment records of the same entity whose statuses are both
\* UPLOADED or VERIFIED have overlapping [cycle_start, cycle_end] intervals.
C20_NoOverlappingPayments ==
    \A i \in 1..Len(payments), j \in 1..Len(payments) :
        (/\ i < j
         /\ payments[i].student = payments[j].student
         /\ payments[i].status \in {"UPLOADED", "VERIFIED"}
         /\ payments[j].status \in {"UPLOADED", "VERIFIED"}) =>
            \/ payments[i].cycle_end < payments[j].cycle_start
            \/ payments[j].cycle_end < payments[i].cycle_start

\* ------------------------------------------- properties of bulk rotation
\* worker w commits a bulk rotation request in this step
BulkCommit(w) == workers[w].kind = "bulk" /\ workers'[w].kind = "idle"

\* C21: a bulk rotation request increments the global qr_secret_version by
\* exactly 1 and rotates every entity that is APPROVED at request time
\* (version + 1, fresh nonce), while PENDING and DENIED entities keep their
\* qr_version and qr_nonce: the committing step raises the stored counter by
\* 1 and queues exactly the APPROVED ids, and every later change of an
\* entity's QR fields is version + 1 with an unused nonce on an APPROVED one.
C21_BulkRotation ==
    [][/\ \A w \in WorkerIds :
              BulkCommit(w) =>
                  /\ qr_secret_version' = qr_secret_version + 1
                  /\ Len(taskQueue') = Len(taskQueue) + 1
                  /\ {taskQueue'[Len(taskQueue')][k] :
                          k \in 1..Len(taskQueue'[Len(taskQueue')])}
                       = {id \in StudentIds : students[id].status = "APPROVED"}
       /\ \A id \in StudentIds :
              (\/ students'[id].qr_version /= students[id].qr_version
               \/ students'[id].qr_nonce /= students[id].qr_nonce) =>
                  /\ students[id].status = "APPROVED"
                  /\ students'[id].qr_version = students[id].qr_version + 1
                  /\ students'[id].qr_nonce \notin NoncesInUse]_vars

\* the notification carrying the QR of row, the row of id, is among sent
Notified(id, row, sent) ==
    generate_qr_payload(id, row.qr_version, row.qr_nonce, QR_SECRET) \in sent

\* C22: in bulk rotation entities are processed independently: a failure
\* while rotating one entity never prevents the remaining entities of the
\* list from being rotated in the same run, and the retry list scheduled
\* afterwards contains exactly the entities whose processing failed.  Every
\* iteration removes only the head of the remaining list, records the head as
\* failed exactly when its processing did not complete, and the run ends only
\* when the list is exhausted, scheduling the failed list if it is not empty.
C22_IndependentProcessing ==
    [][\A w \in WorkerIds :
          (workers[w].kind = "task" /\ workers'[w] /= workers[w]) =>
              LET a == workers[w]
                  b == workers'[w]
              IN  \/ /\ b.kind = "idle"
                     /\ a.todo = <<>>
                     /\ taskQueue' = IF a.failed /= <<>>
                                     THEN Append(taskQueue, a.failed)
                                     ELSE taskQueue
                  \/ /\ b.kind = "task"
                     /\ b.todo = a.todo
                     /\ b.failed = a.failed
                     /\ students' = students
                  \/ /\ b.kind = "task"
                     /\ a.todo /= <<>>
                     /\ b.todo = Tail(a.todo)
                     /\ LET id == Head(a.todo)
                            done == /\ id \in StudentIds
                                    /\ students'[id].qr_version
                                           = students[id].qr_version + 1
                                    /\ Notified(id, students'[id], issued')
                        IN  b.failed = IF done THEN a.failed
                                       ELSE Append(a.failed, id)]_vars

C22_Witness ==
    \E w \in WorkerIds :
        /\ workers[w].kind = "task"
        /\ workers[w].todo = <<>>
        /\ workers[w].failed = <<2>>
        /\ students[2].qr_version = 2
        /\ students[1].qr_version = 2
        /\ Notified(1, students[1], issued)

\* C28: for one bulk rotation request, counting the initial run and all
\* automatic retries, each targeted entity's qr_version increases by exactly 1
\* in total; a retry does not rotate again an entity whose rotation was
\* saved.  With requests served one at a time and every entity registered at
\* version 1, no entity is ahead of the number of requests made.
C28_RotatedOncePerRequest ==
    \A id \in StudentIds :
        students[id].qr_version - 1 <= qr_secret_version - 1

\* no run is in progress and no retry is scheduled
RetryChainEnded ==
    /\ taskQueue = <<>>
    /\ \A w \in WorkerIds : workers[w].kind = "idle"

\* the versions or nonces of the model are used up
RotationExhausted ==
    \/ draws >= MaxDraws
    \/ \E id \in StudentIds : students[id].qr_version >= MaxVersion

\* C29: the bulk-rotation retry chain terminates: from any initial id list,
\* eventually a run of process_qr_regeneration finishes with an empty failed
\* list and schedules no further retry, including when the list contains an
\* id for which no entity exists.
C29_RetryChainTerminates ==
    (taskQueue /= <<>>) ~> (RetryChainEnded \/ RotationExhausted)

\* ------------------------------------------- properties of the responses

\* C23: request-level rejections are indistinguishable by cause: a scan
\* rejected for wrong field count, for a signature mismatch, for an
\* unparseable id, or for an id that matches no stored entity returns the
\* same generic message in every case.
C23_UniformRejection ==
    RequestLevelError(resp) =>
        ErrorMessage(resp.result) = ErrorMessage("invalid_qr")

\* ------------------------------------------ properties of the QR fields

\* C24: an entity is created by registration with status PENDING and
\* qr_version 1, and its qr_version and qr_nonce are changed only by rotation
\* (individual or bulk): approval, denial and the other operations leave both
\* QR fields unchanged.
C24_QRFieldsFrame ==
    [][/\ Len(students') > Len(students) =>
              /\ Len(students') = Len(students) + 1
              /\ students'[Len(students')].status = "PENDING"
              /\ students'[Len(students')].qr_version = 1
       /\ \A id \in StudentIds :
              (\/ students'[id].qr_version /= students[id].qr_version
               \/ students'[id].qr_nonce /= students[id].qr_nonce) =>
                  \E w \in WorkerIds :
                      /\ RotationWrite(w)
                      /\ workers[w].insts[1].id = id]_vars

\* C25: notification and sheet-sync are fire-and-forget for the scan path:
\* when enqueueing the notification or the sync task fails after a decision
\* was made, the decision returned to the caller is unchanged and its
\* ScanEvent remains recorded; no scan made for a meal that reached its
\* decision ends as a server error.
C25_FireAndForget ==
    ~(/\ resp.kind = "error"
      /\ resp.result = "server_error"
      /\ resp.meal \in Meals)

\* ------------------------------------------- properties of the approval

\* C26: registration status is decided once: through every approval path an
\* approve or deny request changes an entity's status only if it is PENDING;
\* for an entity already APPROVED or DENIED the request is refused and the
\* status and all other fields stay unchanged.
C26_DecidedOnce ==
    [][\A id \in StudentIds :
          students[id].status /= "PENDING" => students'[id] = students[id]]_vars

\* ------------------------------------------ properties of the staff token

\* C27: staff tokens are revocable: once a staff token is deactivated or its
\* expires_at has passed, no later scan is processed and no ScanEvent is
\* written under that token, whether the scan arrives through the bearer-token
\* API or through a scanner web session that logged in before the revocation.
C27_RevokedTokenScansNothing ==
    [][(~staff_token.active \/ staff_token.expired) =>
          /\ scanEvents' = scanEvents
          /\ resp'.kind /= "decided"]_vars

\* ------------------------------------------- properties of the sheet sync

\* a step of process_dlq_retries on worker w that puts a task on the queue
DlqEnqueues(w) ==
    /\ workers[w].kind = "dlq"
    /\ workers'[w] /= workers[w]
    /\ Len(sheets_queue') > Len(sheets_queue)

\* a failed attempt of the task at position i with fewer than max_retries
\* retries schedules one retry and adds no DLQ row; the one at max_retries
\* adds one unresolved row and schedules nothing
SyncAttemptBounded ==
    [][sheets_queue' /= sheets_queue /\ Len(sheets_queue') <= Len(sheets_queue)
          /\ workers' = workers =>
         \/ /\ dlq_logs' = dlq_logs
            /\ Len(sheets_queue') = Len(sheets_queue)
            /\ \E i \in 1..Len(sheets_queue) :
                  /\ sheets_queue[i].retries < SyncMaxRetries
                  /\ sheets_queue' = [sheets_queue EXCEPT ![i].retries = @ + 1]
         \/ /\ Len(sheets_queue') = Len(sheets_queue) - 1
            /\ dlq_logs' = Append(dlq_logs, NewDLQLog)
            /\ \E i \in 1..Len(sheets_queue) :
                  /\ sheets_queue[i].retries = SyncMaxRetries
                  /\ sheets_queue' = RemoveAt(sheets_queue, i)]_vars

\* retry_count never exceeds max_retries
DlqRetryCountBounded ==
    \A i \in 1..Len(dlq_logs) : dlq_logs[i].retry_count <= dlq_logs[i].max_retries

\* C30: sheet-sync retry is bounded and ends in the dead-letter queue: a
\* failed attempt below max_retries schedules one retry and no DLQ row, the
\* one at max_retries one unresolved DLQ row and no retry, retry_count never
\* exceeds max_retries, and process_dlq_retries never re-enqueues an entry
\* that is resolved or has retry_count >= max_retries.
C30_BoundedSyncRetry ==
    /\ SyncAttemptBounded
    /\ []DlqRetryCountBounded
    /\ [][\A w \in WorkerIds : DlqEnqueues(w) =>
            DLQLog_can_retry(dlq_logs[Head(workers[w].insts).id])]_vars

====
